---- MODULE Spec2Model ----
(***************************************************************************)
(* Model of speak.py: the hotkey-driven recording / transcription daemon.  *)
(*                                                                         *)
(* Threads of control:                                                     *)
(*   - the OS event-delivery thread running _event_tap_callback,           *)
(*   - one worker thread per dispatched hotkey handler,                    *)
(*   - the audio device's delivery thread running _audio_callback,         *)
(*   - the model-loading thread,                                           *)
(*   - one worker thread per submitted clip (_transcribe_and_type).        *)
(* A step of a thread is one access to shared state (an attribute read or  *)
(* write, a lock operation, a call on a collaborator) together with the    *)
(* thread-local computation that follows it.                               *)
(***************************************************************************)
EXTENDS Integers, Sequences, FiniteSets, TLC

(***************************************************************************)
(* Program constants                                                       *)
(***************************************************************************)
SAMPLE_RATE == 16000

KEYCODE_R == 15

KEYCODE_T == 17

\* MIN_RECORDING_DURATION = 0.3 s, in milliseconds
MIN_RECORDING_DURATION_MS == 300

\* SAMPLE_RATE * MIN_RECORDING_DURATION, the threshold of process_recording
MinSamples == (SAMPLE_RATE * MIN_RECORDING_DURATION_MS) \div 1000

(***************************************************************************)
(* Bounds of the model                                                     *)
(***************************************************************************)
\* hotkey handler threads dispatched during a run whose chord events arrive
\* at any time
MaxOverlapHandlers == 2

\* hotkey handler threads dispatched during a run whose releases of Option+R
\* overtake the running handler
MaxHandlers == 3

\* hotkey handler threads dispatched during a run with spaced chord events
MaxSpacedHandlers == 4

\* hotkey handler threads dispatched during a run under every raw event
MaxTapHandlers == 2

\* audio chunks accepted by _audio_callback during a run
MaxFrames == 2

\* sample counts of the chunks the audio device delivers (100 ms, 300 ms)
FrameLens == {SAMPLE_RATE \div 10, (SAMPLE_RATE * 3) \div 10}

\* a key that is neither chord key (keycode of "A")
OtherKeys == {0}

KeyCodes == {KEYCODE_R, KEYCODE_T} \cup OtherKeys

\* texts the speech model may return: result.get("text", "")
RawTexts == { <<>>, <<" ">>, <<"h", "i">>, <<" ", "h", "i">> }

Whitespace == {" ", "\n", "\t"}

VARIABLES
    \* SpeakDaemon fields
    model_loaded,         \* threading.Event: set / not set
    is_recording,
    audio_buffer,         \* list of chunks
    audio_lock,           \* TRUE while some thread holds the lock
    stream,               \* 0 for None, else the index of the stream in streams
    toggle_mode_active,
    push_to_talk_held,
    \* main thread and the OS side of the event tap
    run_loop,             \* TRUE once run() has entered runConsoleEventLoop
    tap_enabled,          \* the event tap is enabled (CGEventTapEnable)
    last_event,           \* the raw event last handed to _event_tap_callback
    last_return,          \* what the callback returned for it
    \* threads
    handlers,             \* hotkey handler threads, in dispatch order
    workers,              \* _transcribe_and_type threads, in start order
    \* collaborators
    streams,              \* sd.InputStream objects, in creation order
    cb,                   \* per stream: the chunk of the callback in flight
    typed,                \* texts passed to keyboard_controller.type
    \* history
    accepted,             \* chunks for which _audio_callback saw is_recording
    nstops,               \* executions of `self.is_recording = False`
    nstarts               \* executions of `self.audio_buffer = []` in start_recording

vars == << model_loaded, is_recording, audio_buffer, audio_lock, stream,
           toggle_mode_active, push_to_talk_held, run_loop, tap_enabled,
           last_event, last_return, handlers, workers, streams, cb, typed,
           accepted, nstops, nstarts >>

daemon == << is_recording, audio_buffer, audio_lock, stream,
             toggle_mode_active, push_to_talk_held >>

device == << streams, cb, accepted >>

tap == << tap_enabled, last_event, last_return >>

history == << nstops, nstarts >>

(***************************************************************************)
(* Pure helpers                                                            *)
(***************************************************************************)
RECURSIVE LStrip(_)
LStrip(s) == IF s # <<>> /\ Head(s) \in Whitespace THEN LStrip(Tail(s)) ELSE s

RECURSIVE RStrip(_)
RStrip(s) ==
    IF s # <<>> /\ s[Len(s)] \in Whitespace
    THEN RStrip(SubSeq(s, 1, Len(s) - 1)) ELSE s

\* str.strip()
Strip(s) == RStrip(LStrip(s))

RECURSIVE NumSamples(_)
\* len(np.concatenate(chunks).flatten())
NumSamples(chunks) ==
    IF chunks = <<>> THEN 0 ELSE Head(chunks).len + NumSamples(Tail(chunks))

(***************************************************************************)
(* _event_tap_callback: the consume / pass-through decision and the        *)
(* handler it dispatches, as a function of the raw event.                  *)
(***************************************************************************)
RawEvent(type, keycode, option, repeat) ==
    [type |-> type, keycode |-> keycode, option |-> option, repeat |-> repeat]

NoEvent == RawEvent("none", 0, FALSE, FALSE)

\* [ret: "event" (passed through) or "None" (suppressed),
\*  dispatch: the handler started on a worker thread, "" for none,
\*  enable: TRUE when CGEventTapEnable(_event_tap, True) is called]
TapResult(ret, dispatch, enable) ==
    [ret |-> ret, dispatch |-> dispatch, enable |-> enable]

\* the callback without the Option test
event_tap_callback_anymod(ev) ==
    IF ev.type = "TapDisabledByTimeout" THEN TapResult("event", "", TRUE)
    ELSE IF ev.type \notin {"KeyDown", "KeyUp"} THEN TapResult("event", "", FALSE)
    ELSE IF ev.keycode = KEYCODE_R THEN
        IF ev.type = "KeyDown" /\ ~ev.repeat
        THEN TapResult("None", "ptt_down", FALSE)
        ELSE IF ev.type = "KeyUp"
        THEN TapResult("None", "ptt_up", FALSE)
        ELSE TapResult("None", "", FALSE)
    ELSE IF ev.keycode = KEYCODE_T THEN
        IF ev.type = "KeyDown" /\ ~ev.repeat
        THEN TapResult("None", "toggle", FALSE)
        ELSE TapResult("None", "", FALSE)
    ELSE TapResult("event", "", FALSE)

\* the callback without the auto-repeat test
event_tap_callback_norepeat(ev) ==
    IF ev.type = "TapDisabledByTimeout" THEN TapResult("event", "", TRUE)
    ELSE IF ev.type \notin {"KeyDown", "KeyUp"} THEN TapResult("event", "", FALSE)
    ELSE IF ~ev.option THEN TapResult("event", "", FALSE)
    ELSE IF ev.keycode = KEYCODE_R THEN
        TapResult("None", IF ev.type = "KeyDown" THEN "ptt_down" ELSE "ptt_up", FALSE)
    ELSE IF ev.keycode = KEYCODE_T THEN
        TapResult("None", IF ev.type = "KeyDown" THEN "toggle" ELSE "", FALSE)
    ELSE TapResult("event", "", FALSE)

event_tap_callback(ev) ==
    IF ev.type = "TapDisabledByTimeout" THEN TapResult("event", "", TRUE)
    ELSE IF ev.type = "TapDisabledByUserInput" THEN TapResult("event", "", FALSE)
    ELSE IF ev.type \notin {"KeyDown", "KeyUp"} THEN TapResult("event", "", FALSE)
    ELSE IF ~ev.option THEN TapResult("event", "", FALSE)
    ELSE IF ev.keycode = KEYCODE_R THEN
        IF ev.type = "KeyDown" /\ ~ev.repeat
        THEN TapResult("None", "ptt_down", FALSE)
        ELSE IF ev.type = "KeyUp"
        THEN TapResult("None", "ptt_up", FALSE)
        ELSE TapResult("None", "", FALSE)
    ELSE IF ev.keycode = KEYCODE_T THEN
        IF ev.type = "KeyDown" /\ ~ev.repeat
        THEN TapResult("None", "toggle", FALSE)
        ELSE TapResult("None", "", FALSE)
    ELSE TapResult("event", "", FALSE)

\* threading.Thread(target=_daemon._handle_..., daemon=True).start()
NewHandler(kind) ==
    [kind |-> kind,
     pc |-> CASE kind = "ptt_down" -> "down_toggle"
              [] kind = "ptt_up" -> "up_held"
              [] OTHER -> "toggle_read",
     audio |-> <<>>,     \* local `audio` of process_recording; <<>> for None
     flip |-> 0,         \* value of nstops after this thread's flag flip
     sess |-> 0]         \* value of nstarts when this thread cleared / read the buffer

\* the worker thread started by process_recording for the clip of handler h
NewWorker(h) ==
    [clip |-> h, pc |-> "wait", raw |-> <<>>, text |-> <<>>]

\* A chunk: id numbers the accepted chunks in delivery order, len is its
\* sample count, stream the stream that delivered it, epoch the value of
\* nstops at delivery.
NoFrame == [id |-> 0, len |-> 0, stream |-> 0, epoch |-> 0]

IdleCb == [pc |-> "idle", frame |-> NoFrame]

(***************************************************************************)
(* Initial state: SpeakDaemon() constructed, the model-loading thread      *)
(* started, the event tap created and enabled by run().                    *)
(***************************************************************************)
Init ==
    /\ model_loaded = FALSE
    /\ is_recording = FALSE
    /\ audio_buffer = <<>>
    /\ audio_lock = FALSE
    /\ stream = 0
    /\ toggle_mode_active = FALSE
    /\ push_to_talk_held = FALSE
    /\ run_loop = FALSE
    /\ tap_enabled = TRUE
    /\ last_event = NoEvent
    /\ last_return = "event"
    /\ handlers = <<>>
    /\ workers = <<>>
    /\ streams = <<>>
    /\ cb = <<>>
    /\ typed = <<>>
    /\ accepted = <<>>
    /\ nstops = 0
    /\ nstarts = 0

(***************************************************************************)
(* Model loading and the main thread                                       *)
(***************************************************************************)
\* a model loader whose readiness flag can be cleared again
load_model_reset ==
    /\ model_loaded' = ~model_loaded
    /\ UNCHANGED << daemon, run_loop, tap, handlers, workers,
                    device, typed, history >>

\* _load_model: self.model_loaded.set()
load_model ==
    /\ ~model_loaded
    /\ model_loaded' = TRUE
    /\ UNCHANGED << daemon, run_loop, tap, handlers, workers,
                    device, typed, history >>

\* run(): self.model_loaded.wait(), then AppHelper.runConsoleEventLoop()
run ==
    /\ ~run_loop
    /\ model_loaded
    /\ run_loop' = TRUE
    /\ UNCHANGED << model_loaded, daemon, tap, handlers, workers,
                    device, typed, history >>

(***************************************************************************)
(* The event tap.  Its mask holds key-down and key-up events; the OS also  *)
(* sends the two tap-disabled notifications.  The callback runs on the run *)
(* loop of the main thread, one event at a time.  A key may be held before *)
(* the tap sees its first event, so any raw event can follow any other.    *)
(***************************************************************************)
KeyEvents ==
    { RawEvent(type, k, option, repeat) :
        type \in {"KeyDown", "KeyUp"}, k \in KeyCodes,
        option \in BOOLEAN, repeat \in BOOLEAN }

\* auto-repeat is a property of key-down events
RawEvents ==
    { ev \in KeyEvents : ev.type = "KeyUp" => ~ev.repeat }
    \cup { RawEvent(type, 0, FALSE, FALSE) :
             type \in {"TapDisabledByTimeout", "TapDisabledByUserInput"} }

\* Option+R pressed, Option+R released, Option+T pressed
ChordEvents ==
    { RawEvent("KeyDown", KEYCODE_R, TRUE, FALSE),
      RawEvent("KeyUp", KEYCODE_R, TRUE, FALSE),
      RawEvent("KeyDown", KEYCODE_T, TRUE, FALSE) }

AllHandlersDone ==
    \A i \in DOMAIN handlers : handlers[i].pc \in {"done", "raised"}

\* a callback that runs the first write of the handler inline instead of
\* starting a thread for it
TapEvent_inline(ev, eager, max) ==
    /\ run_loop
    /\ tap_enabled
    /\ LET r == event_tap_callback(ev) IN
       /\ ev \in eager \/ AllHandlersDone
       /\ last_event' = ev
       /\ last_return' = r.ret
       /\ toggle_mode_active' =
             IF r.dispatch = "toggle" THEN ~toggle_mode_active
             ELSE toggle_mode_active
       /\ push_to_talk_held' =
             IF r.dispatch = "ptt_down" THEN TRUE
             ELSE IF r.dispatch = "ptt_up" THEN FALSE
             ELSE push_to_talk_held
       /\ tap_enabled' = IF ev.type \in {"TapDisabledByTimeout",
                                         "TapDisabledByUserInput"}
                         THEN r.enable ELSE tap_enabled
    /\ UNCHANGED << model_loaded, is_recording, audio_buffer, audio_lock,
                    stream, run_loop, handlers, workers, device, typed,
                    history >>

\* The OS hands ev to _event_tap_callback, which may dispatch the max-th
\* handler at most.  The events of `eager` arrive at any time; before any
\* other event the user leaves the running handler the time to finish.
TapEvent(ev, eager, max) ==
    /\ run_loop
    /\ tap_enabled
    /\ LET r == event_tap_callback(ev) IN
       /\ r.dispatch # "" => Len(handlers) < max
       /\ ev \in eager \/ AllHandlersDone
       /\ last_event' = ev
       /\ last_return' = r.ret
       /\ handlers' = IF r.dispatch # ""
                      THEN Append(handlers, NewHandler(r.dispatch))
                      ELSE handlers
       /\ tap_enabled' = IF ev.type \in {"TapDisabledByTimeout",
                                         "TapDisabledByUserInput"}
                         THEN r.enable ELSE tap_enabled
    /\ UNCHANGED << model_loaded, daemon, run_loop, workers, device, typed,
                    history >>

(***************************************************************************)
(* Hotkey handler threads                                                  *)
(***************************************************************************)
At(i, pc) == i \in DOMAIN handlers /\ handlers[i].pc = pc

Goto(i, pc) == handlers' = [handlers EXCEPT ![i].pc = pc]

\* _handle_push_to_talk_down: `if not self.toggle_mode_active`
down_toggle(i) ==
    /\ At(i, "down_toggle")
    /\ Goto(i, IF toggle_mode_active THEN "done" ELSE "down_held")
    /\ UNCHANGED << model_loaded, daemon, run_loop, tap, workers,
                    device, typed, history >>

\* _handle_push_to_talk_down: `and not self.push_to_talk_held`
down_held(i) ==
    /\ At(i, "down_held")
    /\ Goto(i, IF push_to_talk_held THEN "done" ELSE "down_set")
    /\ UNCHANGED << model_loaded, daemon, run_loop, tap, workers,
                    device, typed, history >>

\* _handle_push_to_talk_down: `self.push_to_talk_held = True`, then start_recording()
down_set(i) ==
    /\ At(i, "down_set")
    /\ push_to_talk_held' = TRUE
    /\ Goto(i, "sr_check")
    /\ UNCHANGED << model_loaded, is_recording, audio_buffer, audio_lock,
                    stream, toggle_mode_active, run_loop, tap,
                    workers, device, typed, history >>

\* _handle_push_to_talk_up: `if self.push_to_talk_held`
up_held(i) ==
    /\ At(i, "up_held")
    /\ Goto(i, IF push_to_talk_held THEN "up_set" ELSE "done")
    /\ UNCHANGED << model_loaded, daemon, run_loop, tap, workers,
                    device, typed, history >>

\* _handle_push_to_talk_up: `self.push_to_talk_held = False`
up_set(i) ==
    /\ At(i, "up_set")
    /\ push_to_talk_held' = FALSE
    /\ Goto(i, "up_rec")
    /\ UNCHANGED << model_loaded, is_recording, audio_buffer, audio_lock,
                    stream, toggle_mode_active, run_loop, tap,
                    workers, device, typed, history >>

\* _handle_push_to_talk_up: `if self.is_recording`
up_rec(i) ==
    /\ At(i, "up_rec")
    /\ Goto(i, IF is_recording THEN "up_toggle" ELSE "done")
    /\ UNCHANGED << model_loaded, daemon, run_loop, tap, workers,
                    device, typed, history >>

\* the release handler without the mode test: `if self.is_recording`
up_toggle_untagged(i) ==
    /\ At(i, "up_toggle")
    /\ Goto(i, "st_check")
    /\ UNCHANGED << model_loaded, daemon, run_loop, tap, workers, device,
                    typed, history >>

\* _handle_push_to_talk_up: `and not self.toggle_mode_active`, then process_recording()
up_toggle(i) ==
    /\ At(i, "up_toggle")
    /\ Goto(i, IF toggle_mode_active THEN "done" ELSE "st_check")
    /\ UNCHANGED << model_loaded, daemon, run_loop, tap, workers,
                    device, typed, history >>

\* _handle_toggle: `if self.toggle_mode_active`
toggle_read(i) ==
    /\ At(i, "toggle_read")
    /\ Goto(i, IF toggle_mode_active THEN "toggle_clear" ELSE "toggle_set")
    /\ UNCHANGED << model_loaded, daemon, run_loop, tap, workers,
                    device, typed, history >>

\* _handle_toggle: `self.toggle_mode_active = False`, then process_recording()
toggle_clear(i) ==
    /\ At(i, "toggle_clear")
    /\ toggle_mode_active' = FALSE
    /\ Goto(i, "st_check")
    /\ UNCHANGED << model_loaded, is_recording, audio_buffer, audio_lock,
                    stream, push_to_talk_held, run_loop, tap,
                    workers, device, typed, history >>

\* _handle_toggle: `self.toggle_mode_active = True`, then start_recording()
toggle_set(i) ==
    /\ At(i, "toggle_set")
    /\ toggle_mode_active' = TRUE
    /\ Goto(i, "sr_check")
    /\ UNCHANGED << model_loaded, is_recording, audio_buffer, audio_lock,
                    stream, push_to_talk_held, run_loop, tap,
                    workers, device, typed, history >>

(***************************************************************************)
(* start_recording                                                         *)
(***************************************************************************)
\* `if self.is_recording: return`
sr_check(i) ==
    /\ At(i, "sr_check")
    /\ Goto(i, IF is_recording THEN "done" ELSE "sr_lock")
    /\ UNCHANGED << model_loaded, daemon, run_loop, tap, workers,
                    device, typed, history >>

\* `with self.audio_lock:` entered
sr_lock(i) ==
    /\ At(i, "sr_lock")
    /\ ~audio_lock
    /\ audio_lock' = TRUE
    /\ Goto(i, "sr_clear")
    /\ UNCHANGED << model_loaded, is_recording, audio_buffer, stream,
                    toggle_mode_active, push_to_talk_held, run_loop, tap, workers, device, typed, history >>

\* `self.audio_buffer = []`, lock released
sr_clear(i) ==
    /\ At(i, "sr_clear")
    /\ audio_buffer' = <<>>
    /\ audio_lock' = FALSE
    /\ nstarts' = nstarts + 1
    /\ handlers' = [handlers EXCEPT ![i].pc = "sr_flag", ![i].sess = nstarts + 1]
    /\ UNCHANGED << model_loaded, is_recording, stream, toggle_mode_active,
                    push_to_talk_held, run_loop, tap, workers,
                    device, typed, nstops >>

\* `self.is_recording = True`
sr_flag(i) ==
    /\ At(i, "sr_flag")
    /\ is_recording' = TRUE
    /\ Goto(i, "sr_open")
    /\ UNCHANGED << model_loaded, audio_buffer, audio_lock, stream,
                    toggle_mode_active, push_to_talk_held, run_loop, tap, workers, device, typed, history >>

\* `self.stream = sd.InputStream(..., callback=self._audio_callback)`
sr_open(i) ==
    /\ At(i, "sr_open")
    /\ streams' = Append(streams, [state |-> "open", sess |-> handlers[i].sess])
    /\ cb' = Append(cb, IdleCb)
    /\ stream' = Len(streams) + 1
    /\ Goto(i, "sr_start")
    /\ UNCHANGED << model_loaded, is_recording, audio_buffer, audio_lock,
                    toggle_mode_active, push_to_talk_held, run_loop, tap, workers, typed, accepted, history >>

\* `self.stream.start()`: raises on None and on a closed stream; starting an
\* active stream changes nothing
sr_start(i) ==
    /\ At(i, "sr_start")
    /\ IF stream = 0 \/ streams[stream].state = "closed"
       THEN Goto(i, "raised") /\ UNCHANGED streams
       ELSE /\ streams' = [streams EXCEPT ![stream].state = "active"]
            /\ Goto(i, "done")
    /\ UNCHANGED << model_loaded, daemon, run_loop, tap, workers,
                    cb, typed, accepted, history >>

(***************************************************************************)
(* stop_recording and process_recording                                    *)
(***************************************************************************)
\* process_recording without the duration test: `audio is None`
TooShort_none_only(audio) == audio = <<>>

\* process_recording: `audio is None or len(audio) < SAMPLE_RATE * MIN_RECORDING_DURATION`
TooShort(audio) == audio = <<>> \/ NumSamples(audio) < MinSamples

\* `if not self.is_recording: return None`
st_check(i) ==
    /\ At(i, "st_check")
    /\ Goto(i, IF is_recording THEN "st_flag" ELSE "done")
    /\ UNCHANGED << model_loaded, daemon, run_loop, tap, workers,
                    device, typed, history >>

\* `self.is_recording = False`
st_flag(i) ==
    /\ At(i, "st_flag")
    /\ is_recording' = FALSE
    /\ nstops' = nstops + 1
    /\ handlers' = [handlers EXCEPT ![i].pc = "st_stream", ![i].flip = nstops + 1]
    /\ UNCHANGED << model_loaded, audio_buffer, audio_lock, stream,
                    toggle_mode_active, push_to_talk_held, run_loop, tap, workers, device, typed, nstarts >>

\* `if self.stream:`
st_stream(i) ==
    /\ At(i, "st_stream")
    /\ Goto(i, IF stream # 0 THEN "st_stop" ELSE "st_lock")
    /\ UNCHANGED << model_loaded, daemon, run_loop, tap, workers,
                    device, typed, history >>

\* `self.stream.stop()`: returns once the callback in flight has returned;
\* errors of a stream that is not active are ignored
st_stop(i) ==
    /\ At(i, "st_stop")
    /\ IF stream = 0
       THEN Goto(i, "raised") /\ UNCHANGED streams
       ELSE /\ cb[stream].pc = "idle"
            /\ streams' = [streams EXCEPT ![stream].state =
                              IF @ = "active" THEN "stopped" ELSE @]
            /\ Goto(i, "st_close")
    /\ UNCHANGED << model_loaded, daemon, run_loop, tap, workers,
                    cb, typed, accepted, history >>

\* `self.stream.close()`
st_close(i) ==
    /\ At(i, "st_close")
    /\ IF stream = 0
       THEN Goto(i, "raised") /\ UNCHANGED streams
       ELSE /\ cb[stream].pc = "idle"
            /\ streams' = [streams EXCEPT ![stream].state = "closed"]
            /\ Goto(i, "st_none")
    /\ UNCHANGED << model_loaded, daemon, run_loop, tap, workers,
                    cb, typed, accepted, history >>

\* `self.stream = None`
st_none(i) ==
    /\ At(i, "st_none")
    /\ stream' = 0
    /\ Goto(i, "st_lock")
    /\ UNCHANGED << model_loaded, is_recording, audio_buffer, audio_lock,
                    toggle_mode_active, push_to_talk_held, run_loop, tap, workers, device, typed, history >>

\* `with self.audio_lock:` entered
st_lock(i) ==
    /\ At(i, "st_lock")
    /\ ~audio_lock
    /\ audio_lock' = TRUE
    /\ Goto(i, "st_read")
    /\ UNCHANGED << model_loaded, is_recording, audio_buffer, stream,
                    toggle_mode_active, push_to_talk_held, run_loop, tap, workers, device, typed, history >>

\* a stop_recording that returns the chunks and leaves them in the buffer
st_read_keep(i) ==
    /\ At(i, "st_read")
    /\ audio_lock' = FALSE
    /\ handlers' = [handlers EXCEPT
                      ![i].audio = audio_buffer,
                      ![i].sess = nstarts,
                      ![i].pc = IF audio_buffer = <<>> \/ NumSamples(audio_buffer) < MinSamples
                                THEN "done" ELSE "pr_start"]
    /\ UNCHANGED << model_loaded, is_recording, audio_buffer, stream,
                    toggle_mode_active, push_to_talk_held, run_loop, tap,
                    workers, device, typed, history >>

\* `if not self.audio_buffer: return None`; else the chunks are concatenated,
\* the buffer is cleared and the clip returned to process_recording, which
\* returns when the clip is too short
st_read(i) ==
    /\ At(i, "st_read")
    /\ audio_lock' = FALSE
    /\ audio_buffer' = <<>>
    /\ handlers' = [handlers EXCEPT
                      ![i].audio = audio_buffer,
                      ![i].sess = nstarts,
                      ![i].pc = IF TooShort(audio_buffer) THEN "done" ELSE "pr_start"]
    /\ UNCHANGED << model_loaded, is_recording, stream, toggle_mode_active,
                    push_to_talk_held, run_loop, tap, workers,
                    device, typed, history >>

\* process_recording: `threading.Thread(target=_transcribe_and_type, daemon=True).start()`
pr_start(i) ==
    /\ At(i, "pr_start")
    /\ workers' = Append(workers, NewWorker(i))
    /\ Goto(i, "done")
    /\ UNCHANGED << model_loaded, daemon, run_loop, tap, device,
                    typed, history >>

(***************************************************************************)
(* The audio device and _audio_callback                                    *)
(***************************************************************************)
\* The device delivers a chunk of n samples on stream s: `if self.is_recording`.
\* A chunk delivered while the flag is clear is dropped.
audio_callback(s, n) ==
    /\ s \in DOMAIN streams
    /\ streams[s].state = "active"
    /\ cb[s].pc = "idle"
    /\ IF is_recording
       THEN /\ Len(accepted) < MaxFrames
            /\ LET f == [id |-> Len(accepted) + 1, len |-> n, stream |-> s,
                         epoch |-> nstops] IN
               /\ accepted' = Append(accepted, f)
               /\ cb' = [cb EXCEPT ![s] = [pc |-> "lock", frame |-> f]]
       ELSE UNCHANGED << accepted, cb >>
    /\ UNCHANGED << model_loaded, daemon, run_loop, tap, handlers,
                    workers, streams, typed, history >>

\* `with self.audio_lock:` entered
cb_lock(s) ==
    /\ s \in DOMAIN cb
    /\ cb[s].pc = "lock"
    /\ ~audio_lock
    /\ audio_lock' = TRUE
    /\ cb' = [cb EXCEPT ![s].pc = "append"]
    /\ UNCHANGED << model_loaded, is_recording, audio_buffer, stream,
                    toggle_mode_active, push_to_talk_held, run_loop, tap, handlers, workers, streams, typed, accepted, history >>

\* `self.audio_buffer.append(indata.copy())`, lock released
cb_append(s) ==
    /\ s \in DOMAIN cb
    /\ cb[s].pc = "append"
    /\ audio_buffer' = Append(audio_buffer, cb[s].frame)
    /\ audio_lock' = FALSE
    /\ cb' = [cb EXCEPT ![s] = IdleCb]
    /\ UNCHANGED << model_loaded, is_recording, stream, toggle_mode_active,
                    push_to_talk_held, run_loop, tap, handlers,
                    workers, streams, typed, accepted, history >>

(***************************************************************************)
(* Transcription workers: _transcribe_and_type                             *)
(***************************************************************************)
WAt(w, pc) == w \in DOMAIN workers /\ workers[w].pc = pc

\* transcribe: `if not self.model_loaded.is_set(): self.model_loaded.wait()`
transcribe_wait(w) ==
    /\ WAt(w, "wait")
    /\ model_loaded
    /\ workers' = [workers EXCEPT ![w].pc = "infer"]
    /\ UNCHANGED << model_loaded, daemon, run_loop, tap, handlers,
                    device, typed, history >>

\* an inference that is held back while a recording is in progress
transcribe_infer_held(w, raw) ==
    /\ WAt(w, "infer")
    /\ ~is_recording
    /\ workers' = [workers EXCEPT
                     ![w].raw = raw,
                     ![w].text = Strip(raw),
                     ![w].pc = IF Strip(raw) # <<>> THEN "type" ELSE "done"]
    /\ UNCHANGED << model_loaded, daemon, run_loop, tap, handlers, device,
                    typed, history >>

\* transcribe without .strip()
transcribe_infer_unstripped(w, raw) ==
    /\ WAt(w, "infer")
    /\ workers' = [workers EXCEPT
                     ![w].raw = raw,
                     ![w].text = raw,
                     ![w].pc = IF raw # <<>> THEN "type" ELSE "done"]
    /\ UNCHANGED << model_loaded, daemon, run_loop, tap, handlers, device,
                    typed, history >>

\* transcribe: mlx_whisper.transcribe(...) returns raw;
\* `text = result.get("text", "").strip()`; then `if text:`
transcribe_infer(w, raw) ==
    /\ WAt(w, "infer")
    /\ workers' = [workers EXCEPT
                     ![w].raw = raw,
                     ![w].text = Strip(raw),
                     ![w].pc = IF Strip(raw) # <<>> THEN "type" ELSE "done"]
    /\ UNCHANGED << model_loaded, daemon, run_loop, tap, handlers,
                    device, typed, history >>

\* type_text: `self.keyboard_controller.type(text)`
type_text(w) ==
    /\ WAt(w, "type")
    /\ typed' = Append(typed, [clip |-> workers[w].clip, text |-> workers[w].text])
    /\ workers' = [workers EXCEPT ![w].pc = "done"]
    /\ UNCHANGED << model_loaded, daemon, run_loop, tap, handlers,
                    device, history >>

(***************************************************************************)
(* Specifications                                                          *)
(***************************************************************************)
Handler(i) ==
    \/ down_toggle(i) \/ down_held(i) \/ down_set(i)
    \/ up_held(i) \/ up_set(i) \/ up_rec(i) \/ up_toggle(i)
    \/ toggle_read(i) \/ toggle_clear(i) \/ toggle_set(i)
    \/ sr_check(i) \/ sr_lock(i) \/ sr_clear(i) \/ sr_flag(i)
    \/ sr_open(i) \/ sr_start(i)
    \/ st_check(i) \/ st_flag(i) \/ st_stream(i) \/ st_stop(i)
    \/ st_close(i) \/ st_none(i) \/ st_lock(i) \/ st_read(i)
    \/ pr_start(i)

Device ==
    \/ \E s \in DOMAIN streams, n \in FrameLens : audio_callback(s, n)
    \/ \E s \in DOMAIN cb : cb_lock(s)
    \/ \E s \in DOMAIN cb : cb_append(s)

Worker(w) ==
    \/ transcribe_wait(w)
    \/ \E raw \in RawTexts : transcribe_infer(w, raw)
    \/ type_text(w)

Threads ==
    \/ load_model
    \/ run
    \/ \E i \in DOMAIN handlers : Handler(i)
    \/ Device
    \/ \E w \in DOMAIN workers : Worker(w)

\* The chord events arrive at any time and every thread runs whenever the
\* scheduler picks it: handlers of successive chord events overlap.
Next ==
    (\E ev \in ChordEvents : TapEvent(ev, ChordEvents, MaxOverlapHandlers))
    \/ Threads

Spec == Init /\ [][Next]_vars

\* The same program with the chord events spaced so that a handler finishes
\* before the next event arrives; the audio callback, the model loader and
\* the transcription workers still run concurrently with the handler.
NextSpaced ==
    (\E ev \in ChordEvents : TapEvent(ev, {}, MaxSpacedHandlers)) \/ Threads

SpecSpaced == Init /\ [][NextSpaced]_vars

\* SpecSpaced with the scheduler fair to the model loader and to every
\* transcription worker: model loading completes, each inference call
\* returns and each text is typed.
\* a worker is started by the handler that ends a session another handler
\* began: at most one worker for two handlers
WorkerIds == 1..(MaxSpacedHandlers \div 2)

SpecSpacedFair ==
    /\ SpecSpaced
    /\ WF_vars(load_model)
    /\ \A w \in WorkerIds : WF_vars(Worker(w))

\* The same program with the presses spaced and the releases not: a key may
\* be released while the handler of its press is still running (a quick tap).
QuickRelease == { RawEvent("KeyUp", KEYCODE_R, TRUE, FALSE) }

NextQuickTap ==
    (\E ev \in ChordEvents : TapEvent(ev, QuickRelease, MaxHandlers))
        \/ Threads

SpecQuickTap == Init /\ [][NextQuickTap]_vars

\* The same program with the first chord event handled alone and the later
\* ones arriving at any time: the handlers that follow a started session
\* race each other.
FirstHandlerDone ==
    handlers # <<>> /\ handlers[1].pc \in {"done", "raised"}

NextRace ==
    (\E ev \in ChordEvents :
        TapEvent(ev, IF FirstHandlerDone THEN ChordEvents ELSE {}, MaxHandlers))
        \/ Threads

SpecRace == Init /\ [][NextRace]_vars

\* The same program under every raw event the tap can receive, spaced.
NextTap == (\E ev \in RawEvents : TapEvent(ev, {}, MaxTapHandlers)) \/ Threads

SpecTap == Init /\ [][NextTap]_vars

(***************************************************************************)
(* Properties                                                              *)
(***************************************************************************)
Idle == ~is_recording /\ ~toggle_mode_active /\ ~push_to_talk_held

RecordingPushToTalk == is_recording /\ push_to_talk_held /\ ~toggle_mode_active

RecordingToggle == is_recording /\ toggle_mode_active

\* handler i has taken a step
Stepped(i) == handlers'[i] # handlers[i]

\* stop_recording has returned in handler i after it cleared the flag
Finalized(i) == handlers[i].flip > 0 /\ handlers[i].pc \in {"pr_start", "done"}

Ids(chunks) == [k \in DOMAIN chunks |-> chunks[k].id]

\* the handlers dispatched so far are Press, Release, Press, Release, ... of
\* push-to-talk
PushToTalkPairs ==
    /\ handlers # <<>>
    /\ Len(handlers) % 2 = 0
    /\ \A i \in DOMAIN handlers :
          handlers[i].kind = IF i % 2 = 1 THEN "ptt_down" ELSE "ptt_up"

\* the handlers dispatched so far are an even number of Toggle presses
TogglePairs ==
    /\ handlers # <<>>
    /\ Len(handlers) % 2 = 0
    /\ \A i \in DOMAIN handlers : handlers[i].kind = "toggle"

\* C1: after Press/Release events of one chord only, ending with the matching
\* Release (push-to-talk) or the second Press (toggle), the state is Idle once
\* every dispatched handler has finished.
C1_IdleAfterMatchingEnd ==
    (AllHandlersDone /\ (PushToTalkPairs \/ TogglePairs)) => Idle

\* C2: while push-to-talk is recording, a step of a Toggle handler leaves the
\* state Recording(PushToTalk); while toggle is recording, a step of a
\* push-to-talk Release handler leaves it recording.
C2_TogglePressIgnored ==
    [][ /\ (RecordingPushToTalk /\ \E i \in DOMAIN handlers :
               handlers[i].kind = "toggle" /\ Stepped(i))
            => RecordingPushToTalk'
        /\ (RecordingToggle /\ \E i \in DOMAIN handlers :
               handlers[i].kind = "ptt_up" /\ Stepped(i))
            => RecordingToggle' ]_vars

\* C3: while the state is Recording(Toggle), a step of a push-to-talk Press or
\* Release handler changes neither the flag, the mode, the buffer nor the
\* streams, and starts no transcription worker.
C3_PushToTalkIgnoredInToggle ==
    [][ (RecordingToggle /\ \E i \in DOMAIN handlers :
            handlers[i].kind \in {"ptt_down", "ptt_up"} /\ Stepped(i))
        => UNCHANGED << is_recording, toggle_mode_active, audio_buffer, stream,
                        streams, workers, nstarts, nstops >> ]_vars

\* a push-to-talk Press and its Release were handled during a toggle session
\* that is still recording, with its chunks still in the buffer
C3_Witness ==
    /\ RecordingToggle
    /\ AllHandlersDone
    /\ Len(handlers) = 3
    /\ handlers[1].kind = "toggle"
    /\ handlers[2].kind = "ptt_down"
    /\ handlers[3].kind = "ptt_up"
    /\ audio_buffer # <<>>
    /\ workers = <<>>

\* C4: every chunk of a finalized clip was delivered by the device before
\* `self.is_recording = False` of the stop_recording call that returned the
\* clip (epoch counts the flips done when the callback was invoked, flip is
\* the number of this call's flip).
C4_NoPostStopLeak ==
    \A i \in DOMAIN handlers :
        Finalized(i) =>
            \A k \in DOMAIN handlers[i].audio :
                handlers[i].audio[k].epoch < handlers[i].flip

\* C5: the clip stop_recording returns is exactly the chunks the callback
\* accepted (it saw the flag set) between the previous flip and this call's
\* flip, in delivery order.
C5_NoFrameLost ==
    \A i \in DOMAIN handlers :
        Finalized(i) =>
            Ids(handlers[i].audio) =
                Ids(SelectSeq(accepted,
                              LAMBDA f : f.epoch = handlers[i].flip - 1))

\* the handlers dispatched so far are Press, Release, Press, ... of
\* push-to-talk
OnlyPushToTalk ==
    \A i \in DOMAIN handlers :
        handlers[i].kind = IF i % 2 = 1 THEN "ptt_down" ELSE "ptt_up"

\* C6, for successive push-to-talk sessions: every chunk in the buffer was
\* delivered by the stream of the begin capture that last cleared the buffer,
\* and every chunk of a finalized clip by the stream of the session the clip
\* was read from.
C6_NoStaleFrames ==
    OnlyPushToTalk =>
        /\ \A k \in DOMAIN audio_buffer :
              streams[audio_buffer[k].stream].sess = nstarts
        /\ \A i \in DOMAIN handlers :
              Finalized(i) =>
                  \A k \in DOMAIN handlers[i].audio :
                      streams[handlers[i].audio[k].stream].sess = handlers[i].sess

\* C7: at most one input stream is open or started at any instant.
C7_OneLiveStream ==
    Cardinality({ s \in DOMAIN streams : streams[s].state # "closed" }) <= 1

\* C8: no transcription worker is started, and no text is typed, for a clip
\* below the minimum duration.
C8_ShortClipNeverSubmitted ==
    /\ \A w \in DOMAIN workers :
          NumSamples(handlers[workers[w].clip].audio) >= MinSamples
    /\ \A k \in DOMAIN typed :
          NumSamples(handlers[typed[k].clip].audio) >= MinSamples

\* process_recording has returned for a non-empty clip below the minimum and
\* for a stop that found no chunk at all
C8_Witness ==
    /\ \E i \in DOMAIN handlers :
          /\ Finalized(i) /\ handlers[i].pc = "done"
          /\ handlers[i].audio # <<>>
          /\ NumSamples(handlers[i].audio) < MinSamples
    /\ \E i \in DOMAIN handlers :
          /\ Finalized(i) /\ handlers[i].pc = "done"
          /\ handlers[i].audio = <<>>

WorkersOf(i) == { w \in DOMAIN workers : workers[w].clip = i }

TypedOf(i) == { k \in DOMAIN typed : typed[k].clip = i }

\* C9 as stated: each typed text is the text the model returned for its clip.
C9_TypedIsModelText ==
    \A k \in DOMAIN typed :
        \E w \in WorkersOf(typed[k].clip) : typed[k].text = workers[w].raw

\* C9 amended: a session that ended with a clip of at least the minimum
\* duration has exactly one worker; a finished worker whose model text is not
\* blank has typed that text, stripped, exactly once; blank text is never
\* typed.
C9_OneWorkerStrippedTextOnce ==
    /\ \A i \in DOMAIN handlers :
          /\ Cardinality(WorkersOf(i)) <= 1
          /\ (Finalized(i) /\ handlers[i].pc = "done"
                /\ NumSamples(handlers[i].audio) >= MinSamples)
             => Cardinality(WorkersOf(i)) = 1
    /\ \A w \in DOMAIN workers :
          /\ Cardinality(TypedOf(workers[w].clip)) <= 1
          /\ workers[w].pc = "done" =>
                IF Strip(workers[w].raw) # <<>>
                THEN \E k \in TypedOf(workers[w].clip) :
                        typed[k].text = Strip(workers[w].raw)
                ELSE TypedOf(workers[w].clip) = {}
    /\ \A k \in DOMAIN typed :
          /\ Strip(typed[k].text) # <<>>
          /\ WorkersOf(typed[k].clip) # {}

\* a worker typed the stripped text of a model result with leading
\* whitespace, and another worker dropped a blank result
C9_Witness ==
    /\ \E w \in DOMAIN workers :
          /\ workers[w].pc = "done"
          /\ workers[w].raw # Strip(workers[w].raw)
          /\ \E k \in TypedOf(workers[w].clip) :
                typed[k].text = Strip(workers[w].raw)
    /\ \E w \in DOMAIN workers :
          /\ workers[w].pc = "done"
          /\ workers[w].raw = <<" ">>
          /\ TypedOf(workers[w].clip) = {}

\* C10: an auto-repeat key-down event handed to the callback dispatches no
\* handler and changes nothing of the daemon, its threads, the device or the
\* typed texts.
C10_RepeatDispatchesNothing ==
    [][ (\E ev \in RawEvents :
            ev.repeat /\ TapEvent(ev, {}, MaxTapHandlers))
        => UNCHANGED << daemon, handlers, workers, device, typed, history,
                        model_loaded, run_loop, tap_enabled >> ]_vars

\* the callback has just suppressed an auto-repeat of Option+R while the
\* push-to-talk session its first Press started is recording
C10_Witness ==
    /\ last_event = RawEvent("KeyDown", KEYCODE_R, TRUE, TRUE)
    /\ last_return = "None"
    /\ Len(handlers) = 1
    /\ handlers[1].kind = "ptt_down"
    /\ handlers[1].pc = "done"
    /\ RecordingPushToTalk
    /\ audio_buffer # <<>>

\* C11: once the release of the push-to-talk key has been handed to the
\* callback, with or without the Option flag, and every dispatched handler
\* has finished, no push-to-talk session is still recording.
C11_ReleaseEndsPushToTalk ==
    (/\ last_event.type = "KeyUp"
     /\ last_event.keycode = KEYCODE_R
     /\ AllHandlersDone)
    => ~(is_recording /\ push_to_talk_held)

\* C12: a chord event can be handed to the callback and its handler
\* dispatched while the model is still loading.
C12_HotkeysHandledWhileLoading ==
    ~model_loaded =>
        ENABLED (\E ev \in ChordEvents : TapEvent(ev, {}, MaxSpacedHandlers))

\* a transcription worker has passed the wait for model readiness
Inferring(w) == workers[w].pc \in {"infer", "type", "done"}

\* C13: a worker is past the wait of transcribe, at or after the inference
\* call, only when the readiness flag is set, and no step clears the flag.
C13_InferenceOnlyWhenReady ==
    /\ [](\A w \in DOMAIN workers : Inferring(w) => model_loaded)
    /\ [][model_loaded => model_loaded']_vars

\* a worker has run the inference on its clip and typed the text
C13_Witness ==
    /\ model_loaded
    /\ \E w \in DOMAIN workers :
          /\ workers[w].pc = "done"
          /\ workers[w].raw # <<>>
          /\ TypedOf(workers[w].clip) # {}

TapDisabledEvents ==
    { ev \in RawEvents :
        ev.type \in {"TapDisabledByTimeout", "TapDisabledByUserInput"} }

\* C14: when the callback is handed a tap-disabled notification, of either
\* cause, the tap is enabled afterwards, the event is returned and no handler
\* is dispatched.
C14_DisabledTapReenabled ==
    [][ (\E ev \in TapDisabledEvents : TapEvent(ev, {}, MaxTapHandlers))
        => /\ tap_enabled'
           /\ last_return' = "event"
           /\ handlers' = handlers ]_vars

\* C15: a run of the callback leaves the daemon's fields, the streams, the
\* workers, the typed texts and the readiness flag unchanged, its only effect
\* on the threads being at most one new handler thread at its first
\* statement; and while the event loop runs and the tap is enabled the
\* callback can take an event whoever holds the audio lock.
C15_CallbackOnlyDispatches ==
    /\ [][ (\E ev \in RawEvents : TapEvent(ev, {}, MaxTapHandlers))
           => /\ UNCHANGED << daemon, device, workers, typed, model_loaded,
                              history >>
              /\ \/ handlers' = handlers
                 \/ \E kind \in {"ptt_down", "ptt_up", "toggle"} :
                       handlers' = Append(handlers, NewHandler(kind)) ]_vars
    /\ []((run_loop /\ tap_enabled /\ AllHandlersDone)
            => ENABLED (\E ev \in RawEvents :
                           TapEvent(ev, {}, MaxTapHandlers)))

\* the release of Option+R has just been dispatched to a new thread while
\* the audio callback holds the audio lock during a push-to-talk recording
C15_Witness ==
    /\ audio_lock
    /\ \E s \in DOMAIN cb : cb[s].pc = "append"
    /\ RecordingPushToTalk
    /\ last_event = RawEvent("KeyUp", KEYCODE_R, TRUE, FALSE)
    /\ last_return = "None"
    /\ Len(handlers) = 2
    /\ handlers[2] = NewHandler("ptt_up")

\* a key event with the Option flag set and the key code of one of the two
\* chords
Qualifies(ev) ==
    /\ ev.type \in {"KeyDown", "KeyUp"}
    /\ ev.option
    /\ ev.keycode \in {KEYCODE_R, KEYCODE_T}

\* C16: the callback suppresses an event exactly when it is a key event with
\* Option held and the key code of R or T, whatever the state; every other
\* event is returned and dispatches no handler.
C16_ConsumedIffChord ==
    [][ (\E ev \in RawEvents : TapEvent(ev, {}, MaxTapHandlers))
        => /\ (last_return' = "None") <=> Qualifies(last_event')
           /\ ~Qualifies(last_event')
                 => (last_return' = "event" /\ handlers' = handlers) ]_vars

\* the release of Option+T has been suppressed without a handler, during a
\* toggle recording
C16_Witness ==
    /\ last_event = RawEvent("KeyUp", KEYCODE_T, TRUE, FALSE)
    /\ last_return = "None"
    /\ RecordingToggle
    /\ Len(handlers) = 1
    /\ handlers[1].pc = "done"

\* C17: every transcription worker that has been started eventually
\* finishes, its text typed or dropped (WorkerIds holds every worker).
C17_SubmittedClipCompletes ==
    /\ [](DOMAIN workers \subseteq WorkerIds)
    /\ \A w \in WorkerIds :
          (w \in DOMAIN workers)
              ~> (w \in DOMAIN workers /\ workers[w].pc = "done")

\* the first worker has typed its text while a recording started after its
\* clip was submitted is in progress
C17_Witness ==
    /\ Len(workers) = 1
    /\ workers[1].pc = "done"
    /\ TypedOf(workers[1].clip) # {}
    /\ is_recording
    /\ Len(handlers) > workers[1].clip
    /\ audio_buffer # <<>>

\* C18: when every dispatched handler has finished and the flag is clear,
\* self.stream is None and every stream ever created is closed.
C18_IdleMeansNoStream ==
    (AllHandlersDone /\ ~is_recording)
    => /\ stream = 0
       /\ \A s \in DOMAIN streams : streams[s].state = "closed"

\* C19: no chunk is in the clips of two stop_recording calls, nor twice in
\* one clip.
C19_NoFrameInTwoClips ==
    \A i, j \in DOMAIN handlers :
        \A k \in DOMAIN handlers[i].audio, l \in DOMAIN handlers[j].audio :
            handlers[i].audio[k].id = handlers[j].audio[l].id
                => (i = j /\ k = l)

\* two handlers have both cleared the flag of the same session and both
\* have returned from stop_recording, one of them with the two chunks of the
\* session
C19_Witness ==
    /\ nstarts = 1
    /\ \E i, j \in DOMAIN handlers :
          /\ i # j
          /\ Finalized(i) /\ Finalized(j)
          /\ Len(handlers[i].audio) = 2
          /\ handlers[j].audio = <<>>

\* C20: the texts are typed in the order in which their clips were handed
\* to the pipeline (the order of the handlers that ended the sessions).
C20_TypedInSubmissionOrder ==
    \A k, l \in DOMAIN typed :
        k < l => typed[k].clip < typed[l].clip

====
